---- MODULE Spec2Model ----
(***************************************************************************)
(* Model of rust/src/schema.rs of delta.rs: the Delta schema type algebra  *)
(* (SchemaDataType and friends) with its serde JSON codec, and the         *)
(* DeltaLogSchemaFactory that derives the checkpoint (delta log) schema    *)
(* of a table from the table schema and its partition columns.             *)
(***************************************************************************)
EXTENDS Integers, Sequences, FiniteSets, TLC

VARIABLES
    table_schema,       \* the &Schema borrowed by delta_log_schema_for_table
    partition_columns,  \* the &[String] borrowed by delta_log_schema_for_table
    factory,            \* factory id -> None or a DeltaLogSchemaFactory
    log_schema,         \* factory id -> results returned by its calls so far
    json,               \* the serde_json::Value handed to the codec
    decoded,            \* Result of serde_json::from_value::<SchemaDataType>(json)
    encoded,            \* serde_json::to_value(&decoded)
    redecoded,          \* Result of from_value::<SchemaDataType>(encoded)
    calls               \* call id -> the position and locals of a running
                        \* delta_log_schema_for_table on the shared factory

vars == <<table_schema, partition_columns, factory, log_schema,
          json, decoded, encoded, redecoded, calls>>

factory_vars == <<table_schema, partition_columns, factory, log_schema>>
codec_vars == <<json, decoded, encoded, redecoded>>

-----------------------------------------------------------------------------
(* Bounds of the model.                                                    *)

MaxFields == 2            \* longest table schema field list
MaxPartitionColumns == 2  \* longest partition_columns slice
NumHasherKeys == 2        \* distinct RandomState keys a HashMap may draw
MaxCalls == 2             \* calls of delta_log_schema_for_table per factory
MaxDepth == 2             \* nesting depth of the JSON documents decoded

None == [none |-> TRUE]
NotRun == [notrun |-> TRUE]

-----------------------------------------------------------------------------
(* Result<T, E>                                                            *)

Ok(v) == [ok |-> TRUE, val |-> v]
Err == [ok |-> FALSE]

-----------------------------------------------------------------------------
(* serde_json::Value: strings, booleans, null, arrays and objects.  An     *)
(* object is a function from its keys to values.                           *)

JStr(s) == [j |-> "str", s |-> s]
JBool(b) == [j |-> "bool", b |-> b]
JNull == [j |-> "null"]
JArr(a) == [j |-> "arr", a |-> a]
JObj(o) == [j |-> "obj", o |-> o]
JEmptyObj == JObj([k \in {} |-> JNull])

HasKey(v, k) == v.j = "obj" /\ k \in DOMAIN v.o

-----------------------------------------------------------------------------
(* The schema types.                                                       *)

\* HashMap::new() for the metadata of a field: the empty String -> String map
HashMap_new == [k \in {} |-> ""]

SchemaField(name, type, nullable, metadata) ==
    [name |-> name, type |-> type, nullable |-> nullable, metadata |-> metadata]

primitive(s) == [v |-> "primitive", s |-> s]

SchemaTypeStruct(type, fields) ==
    [v |-> "struct", type |-> type, fields |-> fields]

SchemaTypeArray(type, elementType, containsNull) ==
    [v |-> "array", type |-> type, elementType |-> elementType,
     containsNull |-> containsNull]

SchemaTypeMap(type, keyType, valueType, valueContainsNull) ==
    [v |-> "map", type |-> type, keyType |-> keyType, valueType |-> valueType,
     valueContainsNull |-> valueContainsNull]

Schema(type, fields) == [type |-> type, fields |-> fields]

-----------------------------------------------------------------------------
(* Deserialize.  A derived struct deserializer accepts a JSON object       *)
(* (unknown keys ignored, every declared key required) or a JSON array     *)
(* holding exactly the declared fields in declaration order.  The untagged *)
(* enum SchemaDataType tries its variants in declaration order and keeps   *)
(* the first that deserializes.                                            *)

deserialize_String(v) == IF v.j = "str" THEN Ok(v.s) ELSE Err

deserialize_bool(v) == IF v.j = "bool" THEN Ok(v.b) ELSE Err

deserialize_HashMap(v) ==
    IF v.j = "obj" /\ \A k \in DOMAIN v.o : v.o[k].j = "str"
    THEN Ok([k \in DOMAIN v.o |-> v.o[k].s])
    ELSE Err

\* a struct of n declared fields finds its field k (declared i-th) in an
\* object that has the key k, or in an array of exactly n elements
HasMember(v, k, i, n) ==
    \/ v.j = "obj" /\ k \in DOMAIN v.o
    \/ v.j = "arr" /\ i <= n /\ Len(v.a) = n

Member(v, k, i) == IF v.j = "obj" THEN v.o[k] ELSE v.a[i]

RECURSIVE deserialize_SchemaDataType(_)
RECURSIVE deserialize_SchemaField(_)
RECURSIVE deserialize_Vec_SchemaField(_)
RECURSIVE deserialize_SchemaTypeStruct(_)
RECURSIVE deserialize_SchemaTypeArray(_)
RECURSIVE deserialize_SchemaTypeMap(_)

deserialize_Vec_SchemaField(v) ==
    IF v.j = "arr"
    THEN LET items == [i \in 1..Len(v.a) |-> deserialize_SchemaField(v.a[i])]
         IN  IF \A i \in 1..Len(v.a) : items[i].ok
             THEN Ok([i \in 1..Len(v.a) |-> items[i].val])
             ELSE Err
    ELSE Err

deserialize_SchemaField(v) ==
    IF /\ HasMember(v, "name", 1, 4)
       /\ HasMember(v, "type", 2, 4)
       /\ HasMember(v, "nullable", 3, 4)
       /\ HasMember(v, "metadata", 4, 4)
    THEN LET name == deserialize_String(Member(v, "name", 1))
             type == deserialize_SchemaDataType(Member(v, "type", 2))
             nullable == deserialize_bool(Member(v, "nullable", 3))
             metadata == deserialize_HashMap(Member(v, "metadata", 4))
         IN  IF name.ok /\ type.ok /\ nullable.ok /\ metadata.ok
             THEN Ok(SchemaField(name.val, type.val, nullable.val, metadata.val))
             ELSE Err
    ELSE Err

deserialize_SchemaTypeStruct(v) ==
    IF /\ HasMember(v, "type", 1, 2)
       /\ HasMember(v, "fields", 2, 2)
    THEN LET type == deserialize_String(Member(v, "type", 1))
             fields == deserialize_Vec_SchemaField(Member(v, "fields", 2))
         IN  IF type.ok /\ fields.ok
             THEN Ok(SchemaTypeStruct(type.val, fields.val))
             ELSE Err
    ELSE Err

deserialize_SchemaTypeArray(v) ==
    IF /\ HasMember(v, "type", 1, 3)
       /\ HasMember(v, "elementType", 2, 3)
       /\ HasMember(v, "containsNull", 3, 3)
    THEN LET type == deserialize_String(Member(v, "type", 1))
             elementType == deserialize_SchemaDataType(Member(v, "elementType", 2))
             containsNull == deserialize_bool(Member(v, "containsNull", 3))
         IN  IF type.ok /\ elementType.ok /\ containsNull.ok
             THEN Ok(SchemaTypeArray(type.val, elementType.val, containsNull.val))
             ELSE Err
    ELSE Err

deserialize_SchemaTypeMap(v) ==
    IF /\ HasMember(v, "type", 1, 4)
       /\ HasMember(v, "keyType", 2, 4)
       /\ HasMember(v, "valueType", 3, 4)
       /\ HasMember(v, "valueContainsNull", 4, 4)
    THEN LET type == deserialize_String(Member(v, "type", 1))
             keyType == deserialize_SchemaDataType(Member(v, "keyType", 2))
             valueType == deserialize_SchemaDataType(Member(v, "valueType", 3))
             valueContainsNull == deserialize_bool(Member(v, "valueContainsNull", 4))
         IN  IF type.ok /\ keyType.ok /\ valueType.ok /\ valueContainsNull.ok
             THEN Ok(SchemaTypeMap(type.val, keyType.val, valueType.val,
                                   valueContainsNull.val))
             ELSE Err
    ELSE Err

\* the primitive variant restricted to the names of the documented list
deserialize_SchemaDataType_listed(v) ==
    LET as_primitive == deserialize_String(v)
        as_struct == deserialize_SchemaTypeStruct(v)
        as_array == deserialize_SchemaTypeArray(v)
        as_map == deserialize_SchemaTypeMap(v)
    IN  IF as_primitive.ok
             /\ as_primitive.val \in {"string", "long", "integer", "short", "byte",
                                      "float", "double", "boolean", "binary",
                                      "date", "timestamp"}
        THEN Ok(primitive(as_primitive.val))
        ELSE IF as_struct.ok THEN as_struct
        ELSE IF as_array.ok THEN as_array
        ELSE IF as_map.ok THEN as_map
        ELSE Err

deserialize_SchemaDataType(v) ==
    LET as_primitive == deserialize_String(v)
        as_struct == deserialize_SchemaTypeStruct(v)
        as_array == deserialize_SchemaTypeArray(v)
        as_map == deserialize_SchemaTypeMap(v)
    IN  IF as_primitive.ok THEN Ok(primitive(as_primitive.val))
        ELSE IF as_struct.ok THEN as_struct
        ELSE IF as_array.ok THEN as_array
        ELSE IF as_map.ok THEN as_map
        ELSE Err

deserialize_Schema(v) ==
    IF /\ HasMember(v, "type", 1, 2)
       /\ HasMember(v, "fields", 2, 2)
    THEN LET type == deserialize_String(Member(v, "type", 1))
             fields == deserialize_Vec_SchemaField(Member(v, "fields", 2))
         IN  IF type.ok /\ fields.ok
             THEN Ok(Schema(type.val, fields.val))
             ELSE Err
    ELSE Err

-----------------------------------------------------------------------------
(* Serialize.  A derived struct serializer emits an object with exactly    *)
(* the declared keys; the untagged enum emits its payload.                 *)

serialize_HashMap(m) == JObj([k \in DOMAIN m |-> JStr(m[k])])

RECURSIVE serialize_SchemaDataType(_)
RECURSIVE serialize_SchemaField(_)

serialize_Vec_SchemaField(fields) ==
    JArr([i \in 1..Len(fields) |-> serialize_SchemaField(fields[i])])

\* the tag of a struct written as the constant it is expected to be
serialize_SchemaTypeStruct_constant(x) ==
    JObj([type |-> JStr("struct"),
          fields |-> serialize_Vec_SchemaField(x.fields)])

serialize_SchemaTypeStruct(x) ==
    JObj([type |-> JStr(x.type),
          fields |-> serialize_Vec_SchemaField(x.fields)])

serialize_SchemaTypeArray(x) ==
    JObj([type |-> JStr(x.type),
          elementType |-> serialize_SchemaDataType(x.elementType),
          containsNull |-> JBool(x.containsNull)])

serialize_SchemaTypeMap(x) ==
    JObj([type |-> JStr(x.type),
          keyType |-> serialize_SchemaDataType(x.keyType),
          valueType |-> serialize_SchemaDataType(x.valueType),
          valueContainsNull |-> JBool(x.valueContainsNull)])

serialize_SchemaField(f) ==
    JObj([name |-> JStr(f.name),
          type |-> serialize_SchemaDataType(f.type),
          nullable |-> JBool(f.nullable),
          metadata |-> serialize_HashMap(f.metadata)])

serialize_SchemaDataType(x) ==
    CASE x.v = "primitive" -> JStr(x.s)
      [] x.v = "struct" -> serialize_SchemaTypeStruct(x)
      [] x.v = "array" -> serialize_SchemaTypeArray(x)
      [] x.v = "map" -> serialize_SchemaTypeMap(x)

serialize_Schema(s) ==
    JObj([type |-> JStr(s.type), fields |-> serialize_Vec_SchemaField(s.fields)])

-----------------------------------------------------------------------------
(* DeltaLogSchemaFactory::new: the five template field lists, written as   *)
(* JSON and parsed with serde_json::from_value(..).unwrap().               *)

JField(name, type) ==
    JObj([name |-> JStr(name), type |-> type,
          nullable |-> JBool(TRUE), metadata |-> JEmptyObj])

meta_data_fields ==
    JArr(<< JField("id", JStr("string")),
            JField("name", JStr("string")),
            JField("description", JStr("string")),
            JField("schemaString", JStr("string")),
            JField("createdTime", JStr("long")),
            JField("partitionColumns",
                   JObj([type |-> JStr("array"),
                         elementType |-> JStr("string"),
                         containsNull |-> JBool(TRUE)])),
            JField("format",
                   JObj([type |-> JStr("struct"),
                         fields |-> JArr(<< JField("provider", JStr("string")) >>)])) >>)

protocol_fields ==
    JArr(<< JField("minReaderVersion", JStr("integer")),
            JField("minWriterVersion", JStr("integer")) >>)

txn_fields ==
    JArr(<< JField("appId", JStr("string")),
            JField("version", JStr("long")) >>)

add_fields ==
    JArr(<< JField("path", JStr("string")),
            JField("size", JStr("long")),
            JField("modificationTime", JStr("long")),
            JField("dataChange", JStr("boolean")),
            JField("stats", JStr("string")) >>)

remove_fields ==
    JArr(<< JField("path", JStr("string")),
            JField("size", JStr("long")),
            JField("modificationTime", JStr("long")),
            JField("dataChange", JStr("boolean")),
            JField("stats", JStr("string")) >>)

\* the keys of common_fields, in the order of the map.insert calls
InsertOrder == << "metaData", "protocol", "txn", "add", "remove" >>

\* a slip of the pen: the "remove" list inserted under the key "add" again
map_insert_same_key ==
    [name \in {"metaData", "protocol", "txn", "add"} |->
        CASE name = "metaData" -> deserialize_Vec_SchemaField(meta_data_fields).val
          [] name = "protocol" -> deserialize_Vec_SchemaField(protocol_fields).val
          [] name = "txn" -> deserialize_Vec_SchemaField(txn_fields).val
          [] name = "add" -> deserialize_Vec_SchemaField(remove_fields).val]

\* the entries inserted into the map
map_insert ==
    [name \in {InsertOrder[i] : i \in 1..Len(InsertOrder)} |->
        CASE name = "metaData" -> deserialize_Vec_SchemaField(meta_data_fields).val
          [] name = "protocol" -> deserialize_Vec_SchemaField(protocol_fields).val
          [] name = "txn" -> deserialize_Vec_SchemaField(txn_fields).val
          [] name = "add" -> deserialize_Vec_SchemaField(add_fields).val
          [] name = "remove" -> deserialize_Vec_SchemaField(remove_fields).val]

\* HashMap::new() draws the keys of its hasher (RandomState) at random
HasherKeys == 0..(NumHasherKeys - 1)

\* the bucket a hasher with the given keys puts the i-th inserted key in; a
\* stand-in for SipHash that gives every entry a bucket of its own
Bucket(i, keys) ==
    (((i - 1) * (1 + (keys % 4))) + (keys \div 4)) % Len(InsertOrder)

\* the bucket of an entry of common_fields
BucketOf(name, keys) ==
    Bucket(CHOOSE i \in 1..Len(InsertOrder) : InsertOrder[i] = name, keys)

\* HashMap::iter visits the entries bucket by bucket; gives the keys
HashMap_iter(map) ==
    LET occupied == SelectSeq([b \in 1..Len(InsertOrder) |-> b - 1],
                       LAMBDA b : \E name \in DOMAIN map.entries :
                                     BucketOf(name, map.keys) = b)
    IN  [n \in 1..Len(occupied) |->
            CHOOSE name \in DOMAIN map.entries :
                BucketOf(name, map.keys) = occupied[n]]

DeltaLogSchemaFactory_new(keys) ==
    [common_fields |-> [keys |-> keys, entries |-> map_insert]]

-----------------------------------------------------------------------------
(* DeltaLogSchemaFactory::delta_log_schema_for_table                       *)

\* <[String]>::contains
contains(slice, x) == \E i \in 1..Len(slice) : slice[i] = x

\* a different loop: the columns looked up in the schema one after the other
RECURSIVE partition_fields_by_column(_, _)
partition_fields_by_column(schema, columns) ==
    IF columns = << >> THEN << >>
    ELSE SelectSeq(schema.fields, LAMBDA field : field.name = Head(columns))
            \o partition_fields_by_column(schema, Tail(columns))

partition_fields(schema, columns) ==
    SelectSeq(schema.fields, LAMBDA field : contains(columns, field.name))

\* only the first partition column taken out of the statistics
non_partition_fields_first(schema, columns) ==
    SelectSeq(schema.fields,
              LAMBDA field : columns = << >> \/ field.name # Head(columns))

\* statistics kept for every column, partition columns included
non_partition_fields_all(schema, columns) == schema.fields

non_partition_fields(schema, columns) ==
    SelectSeq(schema.fields, LAMBDA field : ~contains(columns, field.name))

\* a struct field declared required
struct_field_required(name, fields) ==
    SchemaField(name, SchemaTypeStruct("struct", fields), FALSE, HashMap_new)

\* SchemaField { name, nullable: true, metadata: HashMap::new(), r#type: struct }
struct_field(name, fields) ==
    SchemaField(name, SchemaTypeStruct("struct", fields), TRUE, HashMap_new)

partition_values_parsed(p_fields) ==
    struct_field("partitionValues_parsed", p_fields)

min_values(n_fields) == struct_field("minValues", n_fields)

max_values(n_fields) == struct_field("maxValues", n_fields)

null_counts(n_fields) == struct_field("nullCounts", n_fields)

stats_parsed(n_fields) ==
    struct_field("stats_parsed",
                 << min_values(n_fields), max_values(n_fields), null_counts(n_fields) >>)

\* both pushes done without the is_empty tests
add_arm_unconditional(fields, p_fields, n_fields) ==
    (fields \o << partition_values_parsed(p_fields) >>) \o << stats_parsed(n_fields) >>

\* the "add" arm of the match: the template list with the parsed structs pushed
add_arm(fields, p_fields, n_fields) ==
    (fields
       \o (IF p_fields # << >> THEN << partition_values_parsed(p_fields) >> ELSE << >>))
       \o (IF n_fields # << >> THEN << stats_parsed(n_fields) >> ELSE << >>)

\* the first arm written "add" | "remove"
envelope_field_remove(name, fields, p_fields, n_fields) ==
    IF name \in {"add", "remove"}
    THEN struct_field(name, add_arm(fields, p_fields, n_fields))
    ELSE struct_field(name, fields)

\* the closure mapped over common_fields.iter()
envelope_field(name, fields, p_fields, n_fields) ==
    IF name = "add"
    THEN struct_field(name, add_arm(fields, p_fields, n_fields))
    ELSE struct_field(name, fields)

\* partition columns validated against the table schema
delta_log_schema_for_table_checked(self, schema, columns) ==
    IF \A i \in 1..Len(columns) :
          \E k \in 1..Len(schema.fields) : schema.fields[k].name = columns[i]
    THEN LET iter == HashMap_iter(self.common_fields)
         IN  Ok(Schema("struct",
                 [i \in 1..Len(iter) |->
                     envelope_field(iter[i], self.common_fields.entries[iter[i]],
                                    partition_fields(schema, columns),
                                    non_partition_fields(schema, columns))]))
    ELSE Err

delta_log_schema_for_table(self, schema, columns) ==
    LET p_fields == partition_fields(schema, columns)
        n_fields == non_partition_fields(schema, columns)
        iter == HashMap_iter(self.common_fields)
        fields == [i \in 1..Len(iter) |->
                     envelope_field(iter[i], self.common_fields.entries[iter[i]],
                                    p_fields, n_fields)]
    IN  Ok(Schema("struct", fields))

-----------------------------------------------------------------------------
(* Inputs of the factory: table schemas over a small pool of columns and   *)
(* partition column lists over a small pool of names.                      *)

SeqsUpTo(S, n) == UNION {[1..k -> S] : k \in 0..n}

FieldPool ==
    { SchemaField("pcol", primitive("integer"), TRUE, HashMap_new),
      SchemaField("col1",
                  SchemaTypeArray("array",
                      SchemaTypeStruct("struct",
                          << SchemaField("pcol", primitive("long"), TRUE, HashMap_new) >>),
                      TRUE),
                  FALSE, [comment |-> "c"]) }

\* the names of the two columns, and one that is no column but for its case
ColumnNames == {"pcol", "col1", "COL1"}

TableSchemas == {Schema("struct", fs) : fs \in SeqsUpTo(FieldPool, MaxFields)}

PartitionColumnLists == SeqsUpTo(ColumnNames, MaxPartitionColumns)

FactoryIds == {"f1", "f2"}

\* the concurrent callers of the shared factory
CallIds == {"c1", "c2"}

Idle == [pc |-> "idle"]

-----------------------------------------------------------------------------
(* Inputs of the codec: JSON documents up to MaxDepth levels of nesting,   *)
(* well-formed and not: every "type" string on every shape of object.      *)

TypeTags == {"struct", "array", "map"}

JsonLeaves == {JStr("long"), JStr("uuid"), JBool(TRUE)}

\* the documents one level above the document c
JsonAbove(c) ==
    UNION { LET jfields == JArr(<< JObj([name |-> JStr("f"), type |-> c,
                                        nullable |-> JBool(FALSE),
                                        metadata |-> JObj([k |-> JStr("v")])]) >>)
            IN  { JObj([type |-> JStr(t), fields |-> jfields]),
                  JObj([type |-> JStr(t), elementType |-> c, containsNull |-> JBool(FALSE)]),
                  JObj([type |-> JStr(t), keyType |-> JStr("string"), valueType |-> c,
                        valueContainsNull |-> JBool(TRUE)]),
                  JObj([type |-> JStr(t), fields |-> jfields,
                        elementType |-> c, containsNull |-> JBool(TRUE)]),
                  JObj([type |-> JStr(t), elementType |-> c, containsNull |-> JBool(TRUE),
                        keyType |-> c, valueType |-> JStr("string"),
                        valueContainsNull |-> JBool(FALSE)]),
                  JObj([type |-> JStr(t), elementType |-> c]),
                  JArr(<< JStr(t), c, JBool(TRUE) >>) }
          : t \in TypeTags }

RECURSIVE JsonDocs(_)
JsonDocs(d) ==
    IF d = 0 THEN JsonLeaves
    ELSE JsonDocs(d - 1) \cup UNION {JsonAbove(c) : c \in JsonDocs(d - 1)}

-----------------------------------------------------------------------------
(* The factory as a state machine: factories are constructed and called    *)
(* on the borrowed table schema and partition columns.                     *)

Init ==
    /\ table_schema \in TableSchemas
    /\ partition_columns \in PartitionColumnLists
    /\ factory = [f \in FactoryIds |-> None]
    /\ log_schema = [f \in FactoryIds |-> << >>]
    /\ json = JNull
    /\ decoded = NotRun
    /\ encoded = NotRun
    /\ redecoded = NotRun
    /\ calls = [c \in CallIds |-> Idle]

\* let factory = DeltaLogSchemaFactory::new();
New(f) ==
    /\ factory[f] = None
    /\ \E keys \in HasherKeys :
          factory' = [factory EXCEPT ![f] = DeltaLogSchemaFactory_new(keys)]
    /\ UNCHANGED <<table_schema, partition_columns, log_schema, codec_vars, calls>>

\* factory.delta_log_schema_for_table(&table_schema, &partition_columns)
Call(f) ==
    /\ factory[f] # None
    /\ Len(log_schema[f]) < MaxCalls
    /\ log_schema' = [log_schema EXCEPT ![f] =
          Append(@, delta_log_schema_for_table(factory[f], table_schema,
                                               partition_columns))]
    /\ UNCHANGED <<table_schema, partition_columns, factory, codec_vars, calls>>

Next == \E f \in FactoryIds : New(f) \/ Call(f)

Spec == Init /\ [][Next]_vars

-----------------------------------------------------------------------------
(* The codec as a state machine: a JSON document is decoded, the decoded   *)
(* value encoded, and the encoding decoded again.                          *)

CodecInit ==
    /\ json \in JsonDocs(MaxDepth)
    /\ decoded = NotRun
    /\ encoded = NotRun
    /\ redecoded = NotRun
    /\ table_schema = Schema("struct", << >>)
    /\ partition_columns = << >>
    /\ factory = [f \in FactoryIds |-> None]
    /\ log_schema = [f \in FactoryIds |-> << >>]
    /\ calls = [c \in CallIds |-> Idle]

\* serde_json::from_value::<SchemaDataType>(json)
Decode ==
    /\ decoded = NotRun
    /\ decoded' = deserialize_SchemaDataType(json)
    /\ UNCHANGED <<json, encoded, redecoded, factory_vars, calls>>

\* serde_json::to_value(&x) of the decoded x
Encode ==
    /\ decoded # NotRun
    /\ decoded.ok
    /\ encoded = NotRun
    /\ encoded' = serialize_SchemaDataType(decoded.val)
    /\ UNCHANGED <<json, decoded, redecoded, factory_vars, calls>>

\* serde_json::from_value::<SchemaDataType>(encoded)
Redecode ==
    /\ encoded # NotRun
    /\ redecoded = NotRun
    /\ redecoded' = deserialize_SchemaDataType(encoded)
    /\ UNCHANGED <<json, decoded, encoded, factory_vars, calls>>

CodecNext == Decode \/ Encode \/ Redecode

CodecSpec == CodecInit /\ [][CodecNext]_vars

-----------------------------------------------------------------------------
(* Concurrent callers: one factory shared by reference (&self), each call  *)
(* of delta_log_schema_for_table running in steps on its own locals.       *)

Shared == "f1"

\* the locals both partition buffers of every running call written at once
partition_step_shared(cs, c) ==
    [d \in DOMAIN cs |->
        IF d = c \/ cs[d].pc = "map"
        THEN [pc |-> "map", schema |-> cs[d].schema, columns |-> cs[d].columns,
              p_fields |-> partition_fields(cs[c].schema, cs[c].columns),
              n_fields |-> non_partition_fields(cs[c].schema, cs[c].columns)]
        ELSE cs[d]]

\* let (partition_fields, non_partition_fields) = ...partition(..): the two
\* vectors are locals of the call c
partition_step(cs, c) ==
    [cs EXCEPT ![c] =
        [pc |-> "map", schema |-> cs[c].schema, columns |-> cs[c].columns,
         p_fields |-> partition_fields(cs[c].schema, cs[c].columns),
         n_fields |-> non_partition_fields(cs[c].schema, cs[c].columns)]]

\* self.common_fields.iter().map(..).collect() and the Ok(Schema {..}) returned
collect(self, p_fields, n_fields) ==
    LET iter == HashMap_iter(self.common_fields)
    IN  Ok(Schema("struct",
            [i \in 1..Len(iter) |->
                envelope_field(iter[i], self.common_fields.entries[iter[i]],
                               p_fields, n_fields)]))

ConcInit ==
    /\ table_schema \in TableSchemas
    /\ partition_columns \in PartitionColumnLists
    /\ \E keys \in HasherKeys :
          factory = [f \in FactoryIds |->
                        IF f = Shared THEN DeltaLogSchemaFactory_new(keys) ELSE None]
    /\ log_schema = [f \in FactoryIds |-> << >>]
    /\ calls = [c \in CallIds |-> Idle]
    /\ json = JNull
    /\ decoded = NotRun
    /\ encoded = NotRun
    /\ redecoded = NotRun

\* a caller enters delta_log_schema_for_table(&self, table_schema,
\* partition_columns) with the partition list or with an empty slice
Begin(c) ==
    /\ calls[c].pc = "idle"
    /\ \E columns \in {partition_columns, << >>} :
          calls' = [calls EXCEPT ![c] =
                       [pc |-> "partition", schema |-> table_schema,
                        columns |-> columns]]
    /\ UNCHANGED <<factory_vars, codec_vars>>

Partition(c) ==
    /\ calls[c].pc = "partition"
    /\ calls' = partition_step(calls, c)
    /\ UNCHANGED <<factory_vars, codec_vars>>

Collect(c) ==
    /\ calls[c].pc = "map"
    /\ calls' = [calls EXCEPT ![c] =
                    [pc |-> "done", schema |-> calls[c].schema,
                     columns |-> calls[c].columns,
                     result |-> collect(factory[Shared], calls[c].p_fields,
                                        calls[c].n_fields)]]
    /\ UNCHANGED <<factory_vars, codec_vars>>

\* the caller drops the returned schema
Finish(c) ==
    /\ calls[c].pc = "done"
    /\ calls' = [calls EXCEPT ![c] = Idle]
    /\ UNCHANGED <<factory_vars, codec_vars>>

ConcNext == \E c \in CallIds : Begin(c) \/ Partition(c) \/ Collect(c) \/ Finish(c)

ConcSpec == ConcInit /\ [][ConcNext]_vars

-----------------------------------------------------------------------------
(* Vocabulary of the properties.                                           *)

\* every schema returned so far satisfies P
AllResults(P(_, _)) ==
    \A f \in FactoryIds : \A i \in 1..Len(log_schema[f]) : P(f, log_schema[f][i])

\* some schema returned so far satisfies P
SomeResult(P(_, _)) ==
    \E f \in FactoryIds : \E i \in 1..Len(log_schema[f]) : P(f, log_schema[f][i])

Positions(fields, name) == {i \in 1..Len(fields) : fields[i].name = name}

Has(fields, name) == Positions(fields, name) # {}

Named(fields, name) == fields[CHOOSE i \in Positions(fields, name) : TRUE]

IsStruct(field) == field.type.v = "struct" /\ field.type.type = "struct"

\* the inner field list of the top-level record called name
Inner(r, name) == Named(r.val.fields, name).type.fields

PartitionNames == {partition_columns[i] : i \in 1..Len(partition_columns)}

TableNames == {table_schema.fields[i].name : i \in 1..Len(table_schema.fields)}

\* the subsequence of fields whose name is in names (keep) or is not (~keep)
RECURSIVE Subsequence(_, _, _)
Subsequence(fields, names, keep) ==
    IF fields = << >> THEN << >>
    ELSE LET rest == Subsequence(Tail(fields), names, keep)
         IN  IF (Head(fields).name \in names) <=> keep
             THEN << Head(fields) >> \o rest
             ELSE rest

EnvelopeNames == {"metaData", "protocol", "txn", "add", "remove"}

-----------------------------------------------------------------------------
\* C1: every schema returned by delta_log_schema_for_table has root type
\* "struct" and exactly 5 top-level fields, the names metaData, protocol,
\* txn, add and remove each occurring exactly once.
C1_Shape(f, r) ==
    /\ r.ok
    /\ r.val.type = "struct"
    /\ Len(r.val.fields) = 5
    /\ \A n \in EnvelopeNames : Cardinality(Positions(r.val.fields, n)) = 1

C1_Envelope == AllResults(C1_Shape)

C1_Called(f, r) == Len(table_schema.fields) = 2 /\ Len(partition_columns) = 2

C1_Witness == SomeResult(C1_Called)

\* C2: whenever add.partitionValues_parsed is present, its fields are, in
\* order and deeply equal, the subsequence of the table schema's fields whose
\* name is in partition_columns (case-sensitive).
C2_Embedded(f, r) ==
    Has(Inner(r, "add"), "partitionValues_parsed") =>
        Named(Inner(r, "add"), "partitionValues_parsed").type.fields
            = Subsequence(table_schema.fields, PartitionNames, TRUE)

C2_PartitionEmbedding == AllResults(C2_Embedded)

\* a partition column next to a column that is listed in another case
C2_Case(f, r) ==
    /\ Has(Inner(r, "add"), "partitionValues_parsed")
    /\ "COL1" \in PartitionNames
    /\ "col1" \in TableNames
    /\ Len(Named(Inner(r, "add"), "partitionValues_parsed").type.fields) = 1

C2_Witness == SomeResult(C2_Case)

\* C3: whenever add.stats_parsed is present it is a struct of exactly the
\* three fields minValues, maxValues, nullCounts in that order, each a struct
\* whose fields are, in order and deeply equal, the subsequence of the table
\* schema's fields whose name is not in partition_columns.
C3_Embedded(f, r) ==
    Has(Inner(r, "add"), "stats_parsed") =>
        LET sp == Named(Inner(r, "add"), "stats_parsed")
            expected == Subsequence(table_schema.fields, PartitionNames, FALSE)
        IN  /\ IsStruct(sp)
            /\ Len(sp.type.fields) = 3
            /\ sp.type.fields[1].name = "minValues"
            /\ sp.type.fields[2].name = "maxValues"
            /\ sp.type.fields[3].name = "nullCounts"
            /\ \A i \in 1..3 :
                  /\ IsStruct(sp.type.fields[i])
                  /\ sp.type.fields[i].type.fields = expected

C3_StatisticsEmbedding == AllResults(C3_Embedded)

\* statistics for a nested data column next to a partition column
C3_Case(f, r) ==
    /\ Has(Inner(r, "add"), "stats_parsed")
    /\ Has(Inner(r, "add"), "partitionValues_parsed")
    /\ \E i \in 1..Len(table_schema.fields) :
          /\ table_schema.fields[i].type.v # "primitive"
          /\ table_schema.fields[i].name \notin PartitionNames

C3_Witness == SomeResult(C3_Case)

\* C4: add has partitionValues_parsed iff some table field's name is in
\* partition_columns, and stats_parsed iff some table field's name is not;
\* an empty table schema leaves add with its 5 template fields only, and an
\* empty partition list with a non-empty table gives stats_parsed alone.
C4_Presence(f, r) ==
    /\ Has(Inner(r, "add"), "partitionValues_parsed")
          <=> (TableNames \cap PartitionNames # {})
    /\ Has(Inner(r, "add"), "stats_parsed")
          <=> (TableNames \ PartitionNames # {})
    /\ table_schema.fields = << >> => Len(Inner(r, "add")) = 5
    /\ (partition_columns = << >> /\ table_schema.fields # << >>) =>
          /\ Has(Inner(r, "add"), "stats_parsed")
          /\ ~Has(Inner(r, "add"), "partitionValues_parsed")

C4_ConditionalPresence == AllResults(C4_Presence)

\* every column of a non-empty table is a partition column: no statistics
C4_Case(f, r) ==
    /\ table_schema.fields # << >>
    /\ TableNames \subseteq PartitionNames
    /\ ~Has(Inner(r, "add"), "stats_parsed")

C4_Witness == SomeResult(C4_Case)

\* C5: any two calls of delta_log_schema_for_table with the same table schema
\* and partition columns return structurally equal schemas, top-level field
\* order included, on one factory and on two separately constructed ones.
C5_TemplateStability ==
    \A f, g \in FactoryIds :
        \A i \in 1..Len(log_schema[f]) : \A k \in 1..Len(log_schema[g]) :
            log_schema[f][i] = log_schema[g][k]

\* C6: the five top-level fields, partitionValues_parsed, stats_parsed and
\* minValues, maxValues, nullCounts are all nullable structs with empty
\* metadata.
NullableStruct(field) ==
    /\ field.nullable = TRUE
    /\ DOMAIN field.metadata = {}
    /\ IsStruct(field)

C6_Nullable(f, r) ==
    /\ \A i \in 1..Len(r.val.fields) : NullableStruct(r.val.fields[i])
    /\ \A i \in 1..Len(Inner(r, "add")) :
          Inner(r, "add")[i].name \in {"partitionValues_parsed", "stats_parsed"} =>
              NullableStruct(Inner(r, "add")[i])
    /\ Has(Inner(r, "add"), "stats_parsed") =>
          \A i \in 1..Len(Named(Inner(r, "add"), "stats_parsed").type.fields) :
              NullableStruct(Named(Inner(r, "add"), "stats_parsed").type.fields[i])

C6_Nullability == AllResults(C6_Nullable)

C6_Case(f, r) ==
    /\ Has(Inner(r, "add"), "stats_parsed")
    /\ Has(Inner(r, "add"), "partitionValues_parsed")
    /\ \E i \in 1..Len(table_schema.fields) : ~table_schema.fields[i].nullable

C6_Witness == SomeResult(C6_Case)

\* C7: the inner field lists of metaData, protocol, txn and remove are the
\* factory's template lists unchanged (7, 2, 2 and 5 fields); the first 5
\* fields of add are the template fields path, size, modificationTime,
\* dataChange, stats, followed by partitionValues_parsed (if present) and then
\* stats_parsed (if present), and by nothing else: no table column is a field
\* of a top-level record.
Count(b) == IF b THEN 1 ELSE 0

C7_Framed(f, r) ==
    LET template == factory[f].common_fields.entries
        add == Inner(r, "add")
        hasP == Has(add, "partitionValues_parsed")
        hasS == Has(add, "stats_parsed")
    IN  /\ \A n \in EnvelopeNames \ {"add"} : Inner(r, n) = template[n]
        /\ Len(Inner(r, "metaData")) = 7
        /\ Len(Inner(r, "protocol")) = 2
        /\ Len(Inner(r, "txn")) = 2
        /\ Len(Inner(r, "remove")) = 5
        /\ SubSeq(add, 1, 5) = template["add"]
        /\ [i \in 1..5 |-> add[i].name]
              = << "path", "size", "modificationTime", "dataChange", "stats" >>
        /\ Len(add) = 5 + Count(hasP) + Count(hasS)
        /\ hasP => add[6].name = "partitionValues_parsed"
        /\ hasS => add[Len(add)].name = "stats_parsed"

C7_TemplateFrame == AllResults(C7_Framed)

\* both parsed structs present in a schema that does not start with metaData
C7_Case(f, r) ==
    /\ Len(Inner(r, "add")) = 7
    /\ r.val.fields[2].name = "add"

C7_Witness == SomeResult(C7_Case)

\* C8: delta_log_schema_for_table returns Ok for every table schema and
\* partition column list; a partition column name absent from the table
\* schema is ignored: the result is the one for the list without that name.
C8_Ignored(f, r) ==
    /\ r.ok
    /\ r = delta_log_schema_for_table(factory[f], table_schema,
              SelectSeq(partition_columns, LAMBDA n : n \in TableNames))

C8_NeverFails == AllResults(C8_Ignored)

\* a list naming one column of the table and one that the table lacks
C8_Case(f, r) ==
    /\ PartitionNames \ TableNames # {}
    /\ PartitionNames \cap TableNames # {}

C8_Witness == SomeResult(C8_Case)

-----------------------------------------------------------------------------
\* C9: for every SchemaDataType x obtained by decoding, decoding the encoding
\* of x succeeds and yields a value equal to x, of the same variant.
C9_RoundTrip ==
    redecoded # NotRun =>
        /\ redecoded.ok
        /\ redecoded.val.v = decoded.val.v
        /\ redecoded.val = decoded.val

\* a container nested in a container, decoded from a document that holds keys
\* of several variants, went around
C9_Witness ==
    /\ redecoded # NotRun
    /\ decoded.val.v = "array"
    /\ decoded.val.elementType.v = "struct"
    /\ decoded.val.elementType.type = "map"
    /\ HasKey(json, "keyType")

\* C10: decoding a JSON object fails whenever its "type" string does not match
\* its shape: a "fields" array with a type other than "struct", elementType
\* and containsNull with a type other than "array", or keyType, valueType and
\* valueContainsNull with a type other than "map".
TypeIsNot(v, tag) == HasKey(v, "type") /\ v.o["type"].j = "str" /\ v.o["type"].s # tag

C10_Mismatch(v) ==
    \/ /\ TypeIsNot(v, "struct")
       /\ HasKey(v, "fields") /\ v.o["fields"].j = "arr"
    \/ /\ TypeIsNot(v, "array")
       /\ HasKey(v, "elementType") /\ HasKey(v, "containsNull")
    \/ /\ TypeIsNot(v, "map")
       /\ HasKey(v, "keyType") /\ HasKey(v, "valueType")
       /\ HasKey(v, "valueContainsNull")

C10_MismatchRejected ==
    (decoded # NotRun /\ C10_Mismatch(json)) => ~decoded.ok

\* C11: any JSON string, well-known primitive name or not, decodes to the
\* primitive variant holding that string and encodes back to the same JSON
\* string; object keys that do not belong to the selected variant are ignored
\* on decode and are absent from the re-encoded object.
VariantKeys(variant) ==
    CASE variant = "struct" -> {"type", "fields"}
      [] variant = "array" -> {"type", "elementType", "containsNull"}
      [] variant = "map" -> {"type", "keyType", "valueType", "valueContainsNull"}

\* the object v without the keys outside keys
Restrict(v, keys) == JObj([k \in DOMAIN v.o \cap keys |-> v.o[k]])

C11_PassThrough ==
    /\ (decoded # NotRun /\ json.j = "str") => decoded = Ok(primitive(json.s))
    /\ (encoded # NotRun /\ json.j = "str") => encoded = json
    /\ (decoded # NotRun /\ decoded.ok /\ json.j = "obj") =>
          deserialize_SchemaDataType(Restrict(json, VariantKeys(decoded.val.v)))
              = decoded
    /\ (encoded # NotRun /\ encoded.j = "obj") =>
          DOMAIN encoded.o = VariantKeys(decoded.val.v)

\* an object with the keys of two variants around an unknown primitive name
\* was decoded and encoded again
C11_Witness ==
    /\ encoded # NotRun
    /\ HasKey(json, "fields")
    /\ HasKey(json, "elementType")
    /\ json.o["elementType"] = JStr("uuid")
    /\ DOMAIN encoded.o # DOMAIN json.o

\* C12: in every schema the program produces the field names within each
\* enclosing struct are pairwise distinct (case-sensitive); in particular add,
\* partitionValues_parsed and the three statistics structs never hold two
\* fields of the same name.
UniqueNames(fields) ==
    \A i, k \in 1..Len(fields) : i # k => fields[i].name # fields[k].name

RECURSIVE DeepUnique(_)
DeepUnique(type) ==
    CASE type.v = "primitive" -> TRUE
      [] type.v = "struct" ->
            /\ UniqueNames(type.fields)
            /\ \A i \in 1..Len(type.fields) : DeepUnique(type.fields[i].type)
      [] type.v = "array" -> DeepUnique(type.elementType)
      [] type.v = "map" -> DeepUnique(type.keyType) /\ DeepUnique(type.valueType)

C12_Unique(f, r) == DeepUnique(SchemaTypeStruct(r.val.type, r.val.fields))

C12_UniqueNames == AllResults(C12_Unique)

-----------------------------------------------------------------------------
\* C13: whatever the interleaving of the calls on one shared factory, every
\* step leaves the factory's template cache and the inputs of the calls
\* unchanged, and a call returns the schema it returns when run alone on
\* that factory.
C13_Step ==
    /\ factory' = factory
    /\ table_schema' = table_schema
    /\ partition_columns' = partition_columns
    /\ \A c \in CallIds :
          (calls[c].pc # "idle" /\ calls'[c].pc # "idle") =>
              /\ calls'[c].schema = calls[c].schema
              /\ calls'[c].columns = calls[c].columns
    /\ \A c \in CallIds :
          calls'[c].pc = "done" =>
              calls'[c].result =
                  delta_log_schema_for_table(factory[Shared], calls'[c].schema,
                                             calls'[c].columns)

C13_Reentrant == [][C13_Step]_vars

\* one call has returned while another, given a different partition list, is
\* between its two steps
C13_Witness ==
    /\ calls["c1"].pc = "done"
    /\ calls["c2"].pc = "map"
    /\ calls["c1"].columns # calls["c2"].columns
    /\ calls["c1"].schema.fields # << >>

-----------------------------------------------------------------------------
\* C14: an object that carries the required keys of more than one variant
\* decodes to the variant named by its "type" string: with "type":"array" to
\* the array variant and with "type":"map" to the map variant, not to a
\* variant that is tried earlier.
CarriesKeysOf(v, variant) == v.j = "obj" /\ VariantKeys(variant) \subseteq DOMAIN v.o

C14_Ambiguous(v) ==
    /\ v.j = "obj"
    /\ Cardinality({variant \in TypeTags : CarriesKeysOf(v, variant)}) > 1
    /\ v.o["type"].j = "str"
    /\ v.o["type"].s \in {"array", "map"}
    /\ CarriesKeysOf(v, v.o["type"].s)

C14_TagSelects ==
    (decoded # NotRun /\ decoded.ok /\ C14_Ambiguous(json)) =>
        decoded.val.v = json.o["type"].s

-----------------------------------------------------------------------------
\* C15: the result depends only on the set of names in partition_columns:
\* a reordered list or one that repeats a name gives the same schema, and
\* every table field is in exactly one of partitionValues_parsed and the
\* statistics structs, so their field counts add up to the number of table
\* fields (an absent struct counting 0).
NamesOf(columns) == {columns[i] : i \in 1..Len(columns)}

GroupFields(r, group) ==
    IF group = "partition"
    THEN IF Has(Inner(r, "add"), "partitionValues_parsed")
         THEN Named(Inner(r, "add"), "partitionValues_parsed").type.fields
         ELSE << >>
    ELSE IF Has(Inner(r, "add"), "stats_parsed")
         THEN Named(Named(Inner(r, "add"), "stats_parsed").type.fields,
                    "minValues").type.fields
         ELSE << >>

InGroup(r, group, field) ==
    \E i \in 1..Len(GroupFields(r, group)) : GroupFields(r, group)[i] = field

\* what the factory f returns for every other list of the same names is what
\* it has returned for partition_columns
C15_SameForSet ==
    \A f \in FactoryIds :
        log_schema[f] # << >> =>
            \A columns \in PartitionColumnLists :
                NamesOf(columns) = PartitionNames =>
                    LET other == delta_log_schema_for_table(factory[f], table_schema,
                                                            columns)
                    IN  \A i \in 1..Len(log_schema[f]) : log_schema[f][i] = other

C15_BySet(f, r) ==
    /\ Len(GroupFields(r, "partition")) + Len(GroupFields(r, "statistics"))
          = Len(table_schema.fields)
    /\ \A i \in 1..Len(table_schema.fields) :
          InGroup(r, "partition", table_schema.fields[i])
              <=> ~InGroup(r, "statistics", table_schema.fields[i])

C15_SetOfNames == C15_SameForSet /\ AllResults(C15_BySet)

\* a list of two different names, one field in each group
C15_Case(f, r) ==
    /\ Len(partition_columns) = 2
    /\ partition_columns[1] # partition_columns[2]
    /\ Len(GroupFields(r, "partition")) = 1
    /\ Len(GroupFields(r, "statistics")) = 1

C15_Witness == SomeResult(C15_Case)

====
